---- MODULE Spec2Model ----
(***************************************************************************)
(* Model of the generate-travel-plan edge function (src/unnamed/part_000):  *)
(* the tolerant JSON extraction helpers, the code-token extractor, the      *)
(* airport resolution fallback chain, the concurrent per-destination        *)
(* flight search and the request handler around them.                       *)
(*                                                                          *)
(* A JavaScript string is a sequence of one-character strings; Chars turns  *)
(* a literal into that form.  A JavaScript value is a record tagged by t.   *)
(***************************************************************************)
EXTENDS Integers, Sequences, FiniteSets, TLC

Chars(s) == [k \in 1..Len(s) |-> SubSeq(s, k, k)]

(***************************************************************************)
(* Characters                                                               *)
(***************************************************************************)
LowerLetters == Chars("abcdefghijklmnopqrstuvwxyz")
UpperLetters == Chars("ABCDEFGHIJKLMNOPQRSTUVWXYZ")
Digits == {"0", "1", "2", "3", "4", "5", "6", "7", "8", "9"}
HexDigits == Digits \cup {"a", "b", "c", "d", "e", "f", "A", "B", "C", "D", "E", "F"}

Range(f) == {f[k] : k \in DOMAIN f}

IsLower(c) == c \in Range(LowerLetters)
IsUpper(c) == c \in Range(UpperLetters)
\* [A-Za-z]
IsAlpha(c) == IsLower(c) \/ IsUpper(c)
\* \w of a JavaScript regular expression: [A-Za-z0-9_]
IsWordChar(c) == IsAlpha(c) \/ c \in Digits \/ c = "_"
\* the white space String.prototype.trim strips (the ASCII part of it)
IsTrimSpace(c) == c \in {" ", "\t", "\n", "\r", "\f"}

IndexIn(c, letters) == CHOOSE k \in DOMAIN letters : letters[k] = c

ToUpperChar(c) == IF IsLower(c) THEN UpperLetters[IndexIn(c, LowerLetters)] ELSE c
ToLowerChar(c) == IF IsUpper(c) THEN LowerLetters[IndexIn(c, UpperLetters)] ELSE c

\* String.prototype.toUpperCase / toLowerCase on ASCII text
toUpperCase(s) == [k \in 1..Len(s) |-> ToUpperChar(s[k])]
toLowerCase(s) == [k \in 1..Len(s) |-> ToLowerChar(s[k])]

\* String.prototype.trim
RECURSIVE TrimLeft(_)
TrimLeft(s) == IF s # <<>> /\ IsTrimSpace(Head(s)) THEN TrimLeft(Tail(s)) ELSE s
RECURSIVE TrimRight(_)
TrimRight(s) ==
    IF s # <<>> /\ IsTrimSpace(s[Len(s)]) THEN TrimRight(SubSeq(s, 1, Len(s) - 1)) ELSE s
trim(s) == TrimRight(TrimLeft(s))

\* /^[A-Za-z]{3}$/.test(s)
IsThreeLetters(s) == Len(s) = 3 /\ \A k \in 1..3 : IsAlpha(s[k])
\* /^[A-Z]{3}$/.test(s)
IsUpperCode(s) == Len(s) = 3 /\ \A k \in 1..3 : IsUpper(s[k])

(***************************************************************************)
(* JavaScript values                                                        *)
(***************************************************************************)
JNull == [t |-> "null"]
JUndefined == [t |-> "undefined"]
JStr(cs) == [t |-> "str", s |-> cs]
JNum(lexeme) == [t |-> "num", n |-> lexeme]
JBool(b) == [t |-> "bool", b |-> b]
JArr(elems) == [t |-> "arr", a |-> elems]
\* an object is the sequence of its members in insertion order
JObj(members) == [t |-> "obj", o |-> members]

\* a number literal denotes zero when its mantissa has no non-zero digit
RECURSIVE MantissaIsZero(_)
MantissaIsZero(lexeme) ==
    IF lexeme = <<>> \/ Head(lexeme) \in {"e", "E"} THEN TRUE
    ELSE IF Head(lexeme) \in (Digits \ {"0"}) THEN FALSE
    ELSE MantissaIsZero(Tail(lexeme))

\* ToBoolean
Truthy(v) ==
    CASE v.t = "null" -> FALSE
      [] v.t = "undefined" -> FALSE
      [] v.t = "bool" -> v.b
      [] v.t = "str" -> v.s # <<>>
      [] v.t = "num" -> ~MantissaIsZero(v.n)
      [] OTHER -> TRUE

\* obj[key]: the last member of that name wins; undefined when there is none
GetProp(v, key) ==
    IF v.t # "obj" THEN JUndefined
    ELSE LET hits == {k \in DOMAIN v.o : v.o[k].k = key}
         IN IF hits = {} THEN JUndefined
            ELSE v.o[CHOOSE k \in hits : \A h \in hits : h <= k].v

\* String(v).  A number is written as its literal, which is what String gives
\* for the plain integer literals the model's replies hold.
RECURSIVE StringOf(_)
RECURSIVE JoinElems(_)
JoinElems(elems) ==
    IF elems = <<>> THEN <<>>
    ELSE LET h == Head(elems)
             piece == IF h.t \in {"null", "undefined"} THEN <<>> ELSE StringOf(h)
         IN IF Len(elems) = 1 THEN piece ELSE piece \o <<",">> \o JoinElems(Tail(elems))
StringOf(v) ==
    CASE v.t = "str" -> v.s
      [] v.t = "num" -> v.n
      [] v.t = "null" -> Chars("null")
      [] v.t = "undefined" -> Chars("undefined")
      [] v.t = "bool" -> IF v.b THEN Chars("true") ELSE Chars("false")
      [] v.t = "arr" -> JoinElems(v.a)
      [] OTHER -> Chars("[object Object]")

(***************************************************************************)
(* JSON.parse, as a recursive-descent parser of the JSON grammar.  A result *)
(* is [ok |-> TRUE, v |-> value, p |-> next position] or [ok |-> FALSE].    *)
(***************************************************************************)
ParseFail == [ok |-> FALSE]
ParseOk(v, p) == [ok |-> TRUE, v |-> v, p |-> p]

IsJsonSpace(c) == c \in {" ", "\t", "\n", "\r"}

RECURSIVE SkipWs(_, _)
SkipWs(t, p) == IF p <= Len(t) /\ IsJsonSpace(t[p]) THEN SkipWs(t, p + 1) ELSE p

\* the character an escape \b \f \n \r \t stands for (backspace has no TLA+ literal)
ControlChar(e) ==
    CASE e = "n" -> "\n" [] e = "t" -> "\t" [] e = "r" -> "\r" [] e = "f" -> "\f"
      [] OTHER -> "^H"

\* the body of a string literal, p just after the opening quote
RECURSIVE ParseStringBody(_, _, _)
ParseStringBody(t, p, acc) ==
    IF p > Len(t) THEN ParseFail
    ELSE IF t[p] = "\"" THEN ParseOk(JStr(acc), p + 1)
    ELSE IF t[p] = "\\" THEN
        IF p + 1 > Len(t) THEN ParseFail
        ELSE IF t[p + 1] \in {"\"", "\\", "/"}
            THEN ParseStringBody(t, p + 2, Append(acc, t[p + 1]))
        ELSE IF t[p + 1] \in {"b", "f", "n", "r", "t"}
            THEN ParseStringBody(t, p + 2, Append(acc, ControlChar(t[p + 1])))
        ELSE IF t[p + 1] = "u" /\ p + 5 <= Len(t)
                /\ \A k \in (p + 2)..(p + 5) : t[k] \in HexDigits
            \* the code unit is kept as its escape, not decoded
            THEN ParseStringBody(t, p + 6,
                     Append(acc, "\\u" \o t[p + 2] \o t[p + 3] \o t[p + 4] \o t[p + 5]))
        ELSE ParseFail
    ELSE IF t[p] \in {"\n", "\t", "\r", "\f"} THEN ParseFail
    ELSE ParseStringBody(t, p + 1, Append(acc, t[p]))

RECURSIVE SkipDigits(_, _)
SkipDigits(t, p) == IF p <= Len(t) /\ t[p] \in Digits THEN SkipDigits(t, p + 1) ELSE p

\* -? (0 | [1-9][0-9]*) (. [0-9]+)? ([eE] [+-]? [0-9]+)?
ParseNumber(t, p) ==
    LET p1 == IF p <= Len(t) /\ t[p] = "-" THEN p + 1 ELSE p
        p2 == IF p1 <= Len(t) /\ t[p1] = "0" THEN p1 + 1 ELSE SkipDigits(t, p1)
        fracEnd == IF p2 + 1 <= Len(t) /\ t[p2] = "." THEN SkipDigits(t, p2 + 1) ELSE p2
        fracBad == p2 <= Len(t) /\ t[p2] = "." /\ fracEnd <= p2 + 1
        e1 == IF fracEnd <= Len(t) /\ t[fracEnd] \in {"e", "E"} THEN fracEnd + 1 ELSE fracEnd
        e2 == IF e1 > fracEnd /\ e1 <= Len(t) /\ t[e1] \in {"+", "-"} THEN e1 + 1 ELSE e1
        expEnd == IF e1 > fracEnd THEN SkipDigits(t, e2) ELSE fracEnd
        expBad == e1 > fracEnd /\ expEnd = e2
    IN IF p2 = p1 \/ fracBad \/ expBad THEN ParseFail
       ELSE ParseOk(JNum(SubSeq(t, p, expEnd - 1)), expEnd)

StartsWith(t, p, word) ==
    p + Len(word) - 1 <= Len(t) /\ SubSeq(t, p, p + Len(word) - 1) = word

RECURSIVE ParseValue(_, _)
RECURSIVE ParseMembers(_, _, _)
RECURSIVE ParseElements(_, _, _)

\* p at the first character of a value
ParseValue(t, p) ==
    IF p > Len(t) THEN ParseFail
    ELSE IF t[p] = "{" THEN
        LET q == SkipWs(t, p + 1)
        IN IF q <= Len(t) /\ t[q] = "}" THEN ParseOk(JObj(<<>>), q + 1)
           ELSE ParseMembers(t, q, <<>>)
    ELSE IF t[p] = "[" THEN
        LET q == SkipWs(t, p + 1)
        IN IF q <= Len(t) /\ t[q] = "]" THEN ParseOk(JArr(<<>>), q + 1)
           ELSE ParseElements(t, q, <<>>)
    ELSE IF t[p] = "\"" THEN ParseStringBody(t, p + 1, <<>>)
    ELSE IF t[p] = "-" \/ t[p] \in Digits THEN ParseNumber(t, p)
    ELSE IF StartsWith(t, p, Chars("true")) THEN ParseOk(JBool(TRUE), p + 4)
    ELSE IF StartsWith(t, p, Chars("false")) THEN ParseOk(JBool(FALSE), p + 5)
    ELSE IF StartsWith(t, p, Chars("null")) THEN ParseOk(JNull, p + 4)
    ELSE ParseFail

\* p at the first character of a member (its key); acc holds the members so far
ParseMembers(t, p, acc) ==
    IF p > Len(t) \/ t[p] # "\"" THEN ParseFail
    ELSE LET key == ParseStringBody(t, p + 1, <<>>)
         IN IF ~key.ok THEN ParseFail
            ELSE LET c == SkipWs(t, key.p)
                 IN IF c > Len(t) \/ t[c] # ":" THEN ParseFail
                    ELSE LET val == ParseValue(t, SkipWs(t, c + 1))
                         IN IF ~val.ok THEN ParseFail
                            ELSE LET q == SkipWs(t, val.p)
                                     more == Append(acc, [k |-> key.v.s, v |-> val.v])
                                 IN IF q > Len(t) THEN ParseFail
                                    ELSE IF t[q] = "}" THEN ParseOk(JObj(more), q + 1)
                                    ELSE IF t[q] = ","
                                        THEN ParseMembers(t, SkipWs(t, q + 1), more)
                                    ELSE ParseFail

\* p at the first character of an element; acc holds the elements so far
ParseElements(t, p, acc) ==
    LET val == ParseValue(t, p)
    IN IF ~val.ok THEN ParseFail
       ELSE LET q == SkipWs(t, val.p)
                more == Append(acc, val.v)
            IN IF q > Len(t) THEN ParseFail
               ELSE IF t[q] = "]" THEN ParseOk(JArr(more), q + 1)
               ELSE IF t[q] = "," THEN ParseElements(t, SkipWs(t, q + 1), more)
               ELSE ParseFail

\* JSON.parse(t): [ok |-> TRUE, v |-> value] or [ok |-> FALSE] (a SyntaxError)
JSONParse(t) ==
    LET r == ParseValue(t, SkipWs(t, 1))
    IN IF r.ok /\ SkipWs(t, r.p) = Len(t) + 1 THEN [ok |-> TRUE, v |-> r.v]
       ELSE ParseFail

(***************************************************************************)
(* Completions: a call returns a value or throws.                           *)
(***************************************************************************)
Return(v) == [kind |-> "return", v |-> v]
Throw(msg) == [kind |-> "throw", msg |-> msg]

(***************************************************************************)
(* extractFirstJsonObject (lines 44-70)                                     *)
(***************************************************************************)
\* text.indexOf("{"), 0-based, -1 when there is none
indexOfBrace(text) ==
    IF \E k \in 1..Len(text) : text[k] = "{"
    THEN (CHOOSE k \in 1..Len(text) : text[k] = "{" /\ \A h \in 1..(k - 1) : text[h] # "{") - 1
    ELSE -1

\* text.slice(from, to), 0-based, to exclusive
slice(text, from, to) == SubSeq(text, from + 1, to)

ScanStart == [depth |-> 0, inString |-> FALSE, escaped |-> FALSE]

\* one iteration of the loop body, lines 51-63, on character ch
ScanStepBroken(st, ch) ==
    LET d == IF ch = "{" THEN st.depth + 1
             ELSE IF ch = "}" THEN st.depth - 1 ELSE st.depth
    IN [depth |-> d, inString |-> FALSE, escaped |-> FALSE]
ScanStepNoEscape(st, ch) ==
    LET inS == IF ch = "\"" THEN ~st.inString ELSE st.inString
        d == IF inS THEN st.depth
             ELSE IF ch = "{" THEN st.depth + 1
             ELSE IF ch = "}" THEN st.depth - 1 ELSE st.depth
    IN [depth |-> d, inString |-> inS, escaped |-> FALSE]
ScanStep(st, ch) ==
    LET inS == IF ch = "\"" /\ ~st.escaped THEN ~st.inString ELSE st.inString
        d == IF inS THEN st.depth
             ELSE IF ch = "{" THEN st.depth + 1
             ELSE IF ch = "}" THEN st.depth - 1 ELSE st.depth
    IN [depth |-> d, inString |-> inS, escaped |-> (ch = "\\" /\ ~st.escaped)]

\* the loop of lines 50-68 from index idx (0-based) in scanner state st
RECURSIVE ScanLoop(_, _, _, _)
ScanLoop(text, first, idx, st) ==
    IF idx >= Len(text) THEN JNull
    ELSE LET nxt == ScanStep(st, text[idx + 1])
         IN IF nxt.depth = 0 THEN JStr(slice(text, first, idx + 1))
            ELSE ScanLoop(text, first, idx + 1, nxt)

extractFirstJsonObject(text) ==
    LET first == indexOfBrace(text)
    IN IF first = -1 THEN JNull ELSE ScanLoop(text, first, first, ScanStart)

(***************************************************************************)
(* safeParseJsonCandidate (lines 73-81)                                     *)
(***************************************************************************)
safeParseUncaught(cand) ==
    IF ~Truthy(cand) THEN Return(JNull)
    ELSE LET r == JSONParse(cand.s)
         IN IF r.ok THEN Return(r.v) ELSE Throw("SyntaxError")
safeParseJsonCandidate(cand) ==
    IF ~Truthy(cand) THEN Return(JNull)
    ELSE LET r == JSONParse(cand.s)
         IN IF r.ok THEN Return(r.v) ELSE Return(JNull)

(***************************************************************************)
(* extractIataCodesFromText (lines 84-93)                                   *)
(***************************************************************************)
\* \b at position p (1-based, between p-1 and p)
WordBoundary(t, p) ==
    LET before == p - 1 >= 1 /\ IsWordChar(t[p - 1])
        after == p <= Len(t) /\ IsWordChar(t[p])
    IN before # after

\* /\b[A-Za-z]{3}\b/ matches at p
MatchAt(t, p) ==
    /\ p + 2 <= Len(t)
    /\ \A k \in p..(p + 2) : IsAlpha(t[k])
    /\ WordBoundary(t, p)
    /\ WordBoundary(t, p + 3)

\* text.match(/.../g): the matches from position from on, leftmost first
RECURSIVE MatchAll(_, _)
MatchAll(t, from) ==
    LET starts == {p \in from..Len(t) : MatchAt(t, p)}
    IN IF starts = {} THEN <<>>
       ELSE LET p == CHOOSE q \in starts : \A r \in starts : q <= r
            IN <<SubSeq(t, p, p + 2)>> \o MatchAll(t, p + 3)

\* Array.from(new Set(xs)): first occurrences, in order
RECURSIVE Dedupe(_, _)
Dedupe(xs, seen) ==
    IF xs = <<>> THEN <<>>
    ELSE IF Head(xs) \in seen THEN Dedupe(Tail(xs), seen)
    ELSE <<Head(xs)>> \o Dedupe(Tail(xs), seen \cup {Head(xs)})


extractIataNoBoundary(text) ==
    IF ~Truthy(text) THEN <<>>
    ELSE LET t == text.s
             runs == {p \in 1..(Len(t) - 2) : \A k \in p..(p + 2) : IsAlpha(t[k])}
         IN IF runs = {} THEN <<>>
            ELSE LET p == CHOOSE q \in runs : \A r \in runs : q <= r
                 IN <<toUpperCase(SubSeq(t, p, p + 2))>>
extractIataUpperOnly(text) ==
    IF ~Truthy(text) THEN <<>>
    ELSE SelectSeq(Dedupe(MatchAll(text.s, 1), {}), IsUpperCode)
extractIataCodesFromText(text) ==
    IF ~Truthy(text) THEN <<>>
    ELSE LET matches == MatchAll(text.s, 1)
         IN IF matches = <<>> THEN <<>>
            ELSE LET upper == Dedupe([k \in 1..Len(matches) |-> toUpperCase(matches[k])], {})
                 IN SelectSeq(upper, IsUpperCode)

(***************************************************************************)
(* COUNTRY_AIRPORTS (lines 9-25)                                            *)
(***************************************************************************)
Codes(names) == [k \in 1..Len(names) |-> Chars(names[k])]

COUNTRY_AIRPORTS ==
    (Chars("germany") :> Codes(<<"FRA", "MUC", "BER", "DUS", "HAM">>))
    @@ (Chars("france") :> Codes(<<"CDG", "ORY", "NCE", "LYS", "MRS">>))
    @@ (Chars("italy") :> Codes(<<"FCO", "MXP", "VCE", "NAP", "BGY">>))
    @@ (Chars("spain") :> Codes(<<"MAD", "BCN", "PMI", "AGP", "SVQ">>))
    @@ (Chars("uk") :> Codes(<<"LHR", "LGW", "MAN", "EDI", "BHX">>))
    @@ (Chars("united kingdom") :> Codes(<<"LHR", "LGW", "MAN", "EDI", "BHX">>))
    @@ (Chars("usa") :> Codes(<<"JFK", "LAX", "ORD", "DFW", "ATL">>))
    @@ (Chars("united states") :> Codes(<<"JFK", "LAX", "ORD", "DFW", "ATL">>))
    @@ (Chars("canada") :> Codes(<<"YYZ", "YVR", "YUL", "YYC", "YOW">>))
    @@ (Chars("japan") :> Codes(<<"NRT", "HND", "KIX", "NGO", "FUK">>))
    @@ (Chars("australia") :> Codes(<<"SYD", "MEL", "BNE", "PER", "ADL">>))
    @@ (Chars("india") :> Codes(<<"DEL", "BOM", "BLR", "CCU", "MAA">>))
    @@ (Chars("china") :> Codes(<<"PEK", "PVG", "CAN", "CTU", "SZX">>))
    @@ (Chars("brazil") :> Codes(<<"GRU", "GIG", "BSB", "CGH", "SSA">>))
    @@ (Chars("mexico") :> Codes(<<"MEX", "CUN", "GDL", "MTY", "TIJ">>))

(***************************************************************************)
(* fetchAirportCodesFromGemini after the response body is read              *)
(* (lines 145-172)                                                          *)
(***************************************************************************)
\* Body of a successful reply.  A payload either carries the model's text at
\* candidates[0].content.parts[0].text, or does not, and then rawText is
\* JSON.stringify(payload), held here as json.
PayloadText(txt) == [text |-> JStr(txt)]
PayloadNoText(json) == [text |-> JUndefined, json |-> json]
PayloadOddText(v) == [text |-> v]

\* line 147
RawTextOf(payload) ==
    IF payload.text.t \in {"undefined", "null"} THEN JStr(payload.json) ELSE payload.text

\* lines 159-168
TokensToLookupFromOne(toks) ==
    IF Len(toks) >= 1
    THEN JObj(<<[k |-> Chars("source_airports"),
                 v |-> JArr(<<JStr(toks[1])>>)],
                [k |-> Chars("destination_airports"),
                 v |-> JArr([k \in 1..(Len(toks) - 1) |-> JStr(toks[k + 1])])]>>)
    ELSE JNull
TokensToLookup(toks) ==
    IF Len(toks) >= 2
    THEN JObj(<<[k |-> Chars("source_airports"),
                 v |-> JArr(<<JStr(toks[1])>>)],
                [k |-> Chars("destination_airports"),
                 v |-> JArr([k \in 1..(Len(toks) - 1) |-> JStr(toks[k + 1])])]>>)
    ELSE JNull

\* lines 155-172: the parse result decides, the tokens of the raw text stand in
LookupFromParsed(p, rawText) ==
    IF p.kind = "throw" THEN p
    ELSE IF Truthy(p.v) THEN Return(p.v)
    ELSE Return(TokensToLookup(extractIataCodesFromText(rawText)))

\* lines 151-152; a text that is no string has no indexOf: a TypeError
LookupFromRawText(rawText) ==
    IF rawText.t # "str" THEN Throw("TypeError: text.indexOf is not a function")
    ELSE LookupFromParsed(safeParseJsonCandidate(extractFirstJsonObject(rawText.s)), rawText)

\* lines 145-172
LookupFromPayload(payload) == LookupFromRawText(RawTextOf(payload))

(***************************************************************************)
(* Airport resolution (lines 184-234)                                       *)
(***************************************************************************)
\* the strings of an array of values
Strings(elems) == [k \in 1..Len(elems) |-> toUpperCase(StringOf(elems[k]))]

\* lines 185-190
arrayifyArraysOnly(value) ==
    IF ~Truthy(value) THEN <<>>
    ELSE IF value.t = "arr" THEN Strings(value.a)
    ELSE <<>>
arrayifyCodes(value) ==
    IF ~Truthy(value) THEN <<>>
    ELSE IF value.t = "arr" THEN Strings(value.a)
    ELSE IF value.t = "str" THEN <<toUpperCase(value.s)>>
    ELSE <<>>

\* lines 192-199: what the lookup provides
GeminiProvided(lookup) ==
    LET s == GetProp(lookup, Chars("source_airports"))
        d == GetProp(lookup, Chars("destination_airports"))
    IN IF Truthy(lookup) /\ (Truthy(s) \/ Truthy(d))
       THEN [src |-> arrayifyCodes(s), dst |-> arrayifyCodes(d)]
       ELSE [src |-> <<>>, dst |-> <<>>]

\* serve (line 27) runs the handler once per request, one invocation after
\* another in one process: served counts the invocations before the current
\* one, previous is what the last of them was given and what it resolved.
\* countryAirports is the table object of the process, which tier 5 reads.
VARIABLES served, previous, countryAirports

\* lines 202-214 (and 215-225): one side's fallback on its own input
InputFallbackDrained(codes, input) ==
    IF Len(codes) # 0 THEN codes
    ELSE IF IsThreeLetters(trim(input)) THEN <<toUpperCase(trim(input))>>
    ELSE IF served = 0 /\ toLowerCase(trim(input)) \in DOMAIN countryAirports
         THEN countryAirports[toLowerCase(trim(input))]
         ELSE codes
InputFallbackNoTrim(codes, input) ==
    IF Len(codes) # 0 THEN codes
    ELSE IF IsThreeLetters(input) THEN <<toUpperCase(input)>>
    ELSE IF toLowerCase(input) \in DOMAIN countryAirports
         THEN countryAirports[toLowerCase(input)]
         ELSE codes
InputFallback(codes, input) ==
    IF Len(codes) # 0 THEN codes
    ELSE LET s == trim(input)
         IN IF IsThreeLetters(s) THEN <<toUpperCase(s)>>
            ELSE LET lookupKey == trim(toLowerCase(s))
                 IN IF lookupKey \in DOMAIN countryAirports
                    THEN countryAirports[lookupKey]
                    ELSE codes

\* lines 228-234
SubstituteSourceOnly(lists) ==
    IF Len(lists.src) = 0 /\ Len(lists.dst) > 0
    THEN [src |-> <<lists.dst[1]>>, dst |-> lists.dst]
    ELSE lists
SubstituteOtherSide(lists) ==
    LET src == IF Len(lists.src) = 0 /\ Len(lists.dst) > 0
               THEN <<lists.dst[1]>> ELSE lists.src
        dst == IF Len(lists.dst) = 0 /\ Len(src) > 0 THEN <<src[1]>> ELSE lists.dst
    IN [src |-> src, dst |-> dst]

\* Lines 202-234 and the table.  Lines 211 and 222 make a side the table's
\* own list; lines 230 and 233 assign a new one-element array to the empty
\* side and write to no existing array, so the table is as it was.  The
\* variant fills the source side by cutting the destination side's array to
\* its first element, which cuts the table's list when tier 5 handed it out.
TableAfterResolutionInPlace(table, provided, source, destination) ==
    LET key == trim(toLowerCase(trim(destination)))
    IN IF /\ InputFallback(provided.src, source) = <<>>
          /\ provided.dst = <<>> /\ ~IsThreeLetters(trim(destination))
          /\ key \in DOMAIN table
       THEN [table EXCEPT ![key] = <<table[key][1]>>]
       ELSE table
TableAfterResolution(table, provided, source, destination) == table

\* lines 192-234
ResolveAirports(source, destination, lookup) ==
    LET provided == GeminiProvided(lookup)
    IN SubstituteOtherSide([src |-> InputFallback(provided.src, source),
                            dst |-> InputFallback(provided.dst, destination)])

(***************************************************************************)
(* Flight offers (lines 264-295)                                            *)
(***************************************************************************)
\* An offer of the provider: its price (hasPrice is FALSE when the field is
\* absent), its total_duration, and whether its legs are well formed (a leg
\* without departure_airport makes line 276 throw).
RawFlight(hasPrice, price, duration, legsOk) ==
    [hasPrice |-> hasPrice, price |-> price, duration |-> duration, legsOk |-> legsOk]

\* lines 267-284 for one destination; data is the best_flights array, or
\* <<>> when the reply has none
MapOffers(data, destAirport) ==
    IF \E k \in DOMAIN data : ~data[k].legsOk THEN Throw("TypeError")
    ELSE Return([k \in DOMAIN data |->
                    [destination |-> destAirport,
                     hasPrice |-> data[k].hasPrice,
                     price |-> data[k].price,
                     duration |-> data[k].duration]])

\* a.price || Number.MAX_SAFE_INTEGER: an absent price and the price 0 are
\* falsy and take the largest key
HasFiniteKey(offer) == offer.hasPrice /\ offer.price # 0

ComparesBeforeOrEqual(a, b) ==
    \/ ~HasFiniteKey(b)
    \/ HasFiniteKey(a) /\ a.price <= b.price
\* the sign of the comparator of line 295 is negative
ComparesBefore(a, b) ==
    /\ HasFiniteKey(a)
    /\ (HasFiniteKey(b) => a.price < b.price)

\* Array.prototype.sort is stable: x goes after every element it does not
\* compare before
RECURSIVE InsertSorted(_, _)
InsertSorted(sorted, x) ==
    IF sorted = <<>> THEN <<x>>
    ELSE IF ComparesBefore(x, Head(sorted)) THEN <<x>> \o sorted
    ELSE <<Head(sorted)>> \o InsertSorted(Tail(sorted), x)
RECURSIVE SortByPrice(_)
SortByPrice(offers) ==
    IF offers = <<>> THEN <<>>
    ELSE InsertSorted(SortByPrice(SubSeq(offers, 1, Len(offers) - 1)), offers[Len(offers)])

RECURSIVE Flat(_)
\* Array.prototype.flat
Flat(xss) == IF xss = <<>> THEN <<>> ELSE Head(xss) \o Flat(Tail(xss))

\* lines 294-295: the join of the searches' results
JoinAllOrNothing(results, failed) ==
    IF \E k \in DOMAIN failed : failed[k] THEN <<>> ELSE SortByPrice(Flat(results))
JoinResults(results, failed) == SortByPrice(Flat(results))

\* line 256: one search per destination code
SearchesIssuedOrHub(destinations) == IF Len(destinations) = 0 THEN 1 ELSE Len(destinations)
SearchesIssued(destinations) == Len(destinations)

\* lines 246-250: flights are requested and the SerpAPI key is configured
FlightsWantedWithoutKey(req, e) == req.includeFlights
FlightsWanted(req, e) == req.includeFlights /\ e.SERPAPI_API_KEY

\* line 252: new Date(startDate).toISOString() returns instead of throwing
DateFormatsAlways(req) == TRUE
DateFormats(req) == req.startDateValid

\* line 299
SelectAirport(sorted, destinations) ==
    IF sorted[1].destination # <<>> THEN JStr(sorted[1].destination)
    ELSE IF Len(destinations) > 0 /\ destinations[1] # <<>> THEN JStr(destinations[1])
    ELSE JNull

(***************************************************************************)
(* Texts the helpers are run on                                             *)
(***************************************************************************)
MaxStrItems == 2
MaxNoise == 1
MaxGarbage == 3
MaxTokLen == 4

RECURSIVE SeqsUpTo(_, _)
\* all sequences of at most n elements of S
SeqsUpTo(S, n) ==
    IF n = 0 THEN {<<>>}
    ELSE LET shorter == SeqsUpTo(S, n - 1)
         IN shorter \cup {Append(x, c) : x \in shorter, c \in S}


\* what a string literal holds between its quotes: braces, an escaped quote,
\* an escaped backslash
StrItems == {<<"{">>, <<"}">>, <<"\\", "\"">>, <<"\\", "\\">>}
StrLits == {<<"\"">> \o Flat(b) \o <<"\"">> : b \in SeqsUpTo(StrItems, MaxStrItems)}
Member(k, v) == k \o <<":">> \o v
Wrap(members) == <<"{">> \o members \o <<"}">>
Obj0 == {Chars("{}")}
Obj1 == Obj0 \cup {Wrap(Member(Chars("\"k\""), v)) : v \in StrLits \cup {<<"1">>} \cup Obj0}
Obj2 == {Wrap(Member(k, Wrap(Member(Chars("\"k\""), v)))) :
             k \in {Chars("\"k\""), Chars("\"}\"")},
             v \in {<<"1">>, Chars("\"}\""), Chars("\"\\\"{\"")}}
          \cup {Wrap(Member(Chars("\"k\""), v) \o Chars(",\"x\":1")) :
                    v \in {Chars("\"}\""), Chars("\"{\""), Chars("\"\\\\\"")}}
ExampleObjects == {Chars("{\"a\":1}"), Chars("{\"note\":\"a{b}c\",\"x\":1}"),
                   Chars("{\"source_airports\":[\"JFK\"],\"destination_airports\":[\"CDG\",\"ORY\"]}")}
JsonObjects == Obj1 \cup Obj2 \cup ExampleObjects

\* commentary around the object
PrefixChars == {"{", "\"", "x"}
SuffixChars == {"}", "\"", "x"}
ProperPrefixes(o) == {SubSeq(o, 1, n) : n \in 1..(Len(o) - 1)}

ExtractTexts ==
    {p \o o \o q : p \in SeqsUpTo(PrefixChars, MaxNoise), o \in JsonObjects,
                   q \in SeqsUpTo(SuffixChars, MaxNoise)}
      \cup UNION {ProperPrefixes(o) : o \in JsonObjects}
      \cup SeqsUpTo({"{", "}", "\"", "\\", "x"}, MaxGarbage)
      \cup {Chars("here is it: {\"a\":1} thanks"),
            Chars("use {x} like this: {\"a\":1}")}

TokChars == {"a", "B", "1", " ", "_"}
IataExample == Chars("Fly from NYC to the CDG hub, LAX also possible")
TokenTexts ==
    {JNull} \cup {JStr(s) : s \in SeqsUpTo(TokChars, MaxTokLen)}
      \cup {JStr(IataExample), JStr(Chars("nyc NYC abcd Nyc x cdg"))}

(***************************************************************************)
(* Requests and upstream replies the handler is run on                      *)
(***************************************************************************)
Sources == {Chars("Germany"), Chars("XYZ"), <<>>, Chars("Paris")}
Destinations == {Chars("France"), <<>>, Chars("Atlantis"), Chars(" cdg ")}

NoRequest == [method |-> "none"]
\* the sources of the requests that ask for flights: a country of the table,
\* and the empty input, which takes the destination's first code
FlightSources == {Chars("Germany"), <<>>}
\* startDate is only read by the flight block (line 252), so it varies in the
\* requests that ask for flights
PostRequests ==
    [method : {"POST"}, bodyOk : {TRUE}, source : Sources, destination : Destinations,
     includeFlights : {FALSE}, startDateValid : {TRUE}]
      \cup [method : {"POST"}, bodyOk : {TRUE}, source : FlightSources,
            destination : Destinations, includeFlights : {TRUE}, startDateValid : BOOLEAN]
\* a pre-flight request, and a request whose body req.json() cannot read
OptionsRequest ==
    [method |-> "OPTIONS", bodyOk |-> FALSE, source |-> <<>>, destination |-> <<>>,
     includeFlights |-> FALSE, startDateValid |-> FALSE]
BadBodyRequest == [OptionsRequest EXCEPT !.method = "POST"]
Requests == PostRequests \cup {OptionsRequest, BadBodyRequest}

ReplyTexts ==
    {"{\"source_airports\":[\"JFK\"],\"destination_airports\":[\"CDG\",\"ORY\"]}",
     "{\"source_airports\":[\"JFK\"],\"destination_airports\":[\"CDG\",\"\"]}",
     "Here you go: {\"source_airports\":[\"fra\"],\"destination_airports\":\"cdg\"} Enjoy!",
     "{\"source_airports\":\"\",\"destination_airports\":\"cdg\"}",
     "{\"source_airports\":[\"JFK\"],\"destination_airports\":[\"\"]}",
     "{\"source_airports\":[\"Paris\"],\"destination_airports\":[\"CDG\"]}",
     "{\"source_airports\":[123,null],\"destination_airports\":[\"CDG\"]}",
     "{\"source_airports\":[],\"destination_airports\":[]}",
     "{\"source_airports\":[\"JFK\"]}",
     "{\"destination_airports\":[\"CDG\"],\"source_airports\":null}",
     "{\"source_airports\":5,\"destination_airports\":{\"a\":1}}",
     "{\"airports\":[\"JFK\",\"CDG\"]}",
     "{source_airports:[JFK], destination_airports:[CDG]}",
     "{\"source_airports\":[\"JFK\"],",
     "I think JFK and CDG or ORY",
     "Only JFK",
     "Sorry, no idea"}
LookupPayloads ==
    {PayloadText(Chars(txt)) : txt \in ReplyTexts}
      \cup {PayloadNoText(Chars("{\"candidates\":[]}")), PayloadOddText(JNum(<<"5">>))}

\* what fetchAirportCodesFromGemini makes of each payload
LookupResults == [payload \in LookupPayloads |-> LookupFromPayload(payload)]

\* best_flights of a reply: none; three priced offers; offers with an absent
\* price, the price 0 and two offers of one price; an offer with a malformed leg
FlightPayloads ==
    {<<>>,
     <<RawFlight(TRUE, 500, 90, TRUE), RawFlight(TRUE, 200, 120, TRUE),
       RawFlight(TRUE, 800, 60, TRUE)>>,
     <<RawFlight(FALSE, 0, 90, TRUE), RawFlight(TRUE, 200, 120, TRUE),
       RawFlight(TRUE, 0, 60, TRUE), RawFlight(TRUE, 200, 75, TRUE)>>,
     <<RawFlight(TRUE, 100, 90, TRUE), RawFlight(TRUE, 300, 120, FALSE)>>}

\* candidates[0].content.parts[0].text of the itinerary reply, undefined when absent
ItineraryPayloads == {JStr(Chars("# Day 1")), JUndefined}

(***************************************************************************)
(* State                                                                    *)
(***************************************************************************)
VARIABLES
    \* extractFirstJsonObject and safeParseJsonCandidate, run step by step
    scanPc, text, firstBrace, i, depth, inString, escaped, jsonCandidate, parsed,
    \* extractIataCodesFromText
    tokPc, tokText, tokens,
    \* the handler: where it is, the environment, the request
    pc, env, request,
    \* rawText of the lookup (line 147, undefined until it is assigned), the
    \* error caught at line 179 ("none" when there is none), airportLookup,
    \* the lists logged at line 198 and the resolved lists
    rawText, lookupError, airportLookup, geminiProvided, sourceAirports, destinationAirports,
    originAirportForSearch,
    \* flightPromises (one entry per destination), flightData, selectedAirportCode
    search, flightData, selectedAirportCode,
    \* the response, and the upstream requests issued so far
    response, lookupRequests, flightRequests, itineraryRequests,
    \* the Index page (lines 398-402): its state, pageFlightData being the
    \* page's flightData, and whether the error toast was shown
    itinerary, pageFlightData, selectedAirport, formData, isLoading, toastShown

scanVars == <<scanPc, text, firstBrace, i, depth, inString, escaped, jsonCandidate, parsed>>
tokVars == <<tokPc, tokText, tokens>>
resolveVars == <<rawText, lookupError, airportLookup, geminiProvided, sourceAirports,
                 destinationAirports, originAirportForSearch>>
flightVars == <<search, flightData, selectedAirportCode>>
counterVars == <<lookupRequests, flightRequests, itineraryRequests>>
runVars == <<served, previous, countryAirports>>
pageVars == <<itinerary, pageFlightData, selectedAirport, formData, isLoading, toastShown>>
handlerVars == <<pc, env, request, resolveVars, flightVars, response, counterVars, runVars,
                 pageVars>>
vars == <<scanVars, tokVars, handlerVars>>

NoResponse == [sent |-> FALSE]
NoPrevious == [source |-> <<>>, destination |-> <<>>, lookup |-> JNull,
               failed |-> FALSE, src |-> <<>>, dst |-> <<>>]

\* lines 398-402: the initial values of useState
PageIdle ==
    /\ itinerary = <<>> /\ pageFlightData = JNull /\ selectedAirport = JNull
    /\ formData = JNull /\ isLoading = FALSE /\ toastShown = FALSE

HandlerIdle ==
    /\ PageIdle
    /\ pc = "idle" /\ request = NoRequest
    /\ rawText = JUndefined
    /\ lookupError = "none" /\ airportLookup = JNull
    /\ geminiProvided = [src |-> <<>>, dst |-> <<>>]
    /\ sourceAirports = <<>> /\ destinationAirports = <<>>
    /\ originAirportForSearch = <<>>
    /\ search = <<>> /\ flightData = <<>> /\ selectedAirportCode = JNull
    /\ response = NoResponse
    /\ lookupRequests = 0 /\ flightRequests = 0 /\ itineraryRequests = 0
    /\ served = 0 /\ previous = NoPrevious
    /\ countryAirports = COUNTRY_AIRPORTS

ScanIdle ==
    /\ scanPc = "idle" /\ text = <<>> /\ firstBrace = -1 /\ i = 0
    /\ depth = 0 /\ inString = FALSE /\ escaped = FALSE
    /\ jsonCandidate = JUndefined /\ parsed = JUndefined
TokIdle == tokPc = "idle" /\ tokText = JNull /\ tokens = <<>>

(***************************************************************************)
(* The extractor, one loop iteration per step                               *)
(***************************************************************************)
\* lines 45-49
ExtractStart ==
    /\ scanPc = "start"
    /\ firstBrace' = indexOfBrace(text)
    /\ IF firstBrace' = -1
       THEN /\ jsonCandidate' = JNull
            /\ scanPc' = "extracted"
            /\ UNCHANGED <<i, depth, inString, escaped>>
       ELSE /\ i' = firstBrace'
            /\ depth' = ScanStart.depth
            /\ inString' = ScanStart.inString
            /\ escaped' = ScanStart.escaped
            /\ scanPc' = "loop"
            /\ UNCHANGED jsonCandidate
    /\ UNCHANGED <<text, parsed, tokVars, handlerVars>>

\* lines 50-67: one iteration
ScanChar ==
    /\ scanPc = "loop"
    /\ i < Len(text)
    /\ LET nxt == ScanStep([depth |-> depth, inString |-> inString, escaped |-> escaped],
                           text[i + 1])
       IN /\ depth' = nxt.depth
          /\ inString' = nxt.inString
          /\ escaped' = nxt.escaped
          /\ IF nxt.depth = 0
             THEN /\ jsonCandidate' = JStr(slice(text, firstBrace, i + 1))
                  /\ scanPc' = "extracted"
                  /\ UNCHANGED i
             ELSE /\ i' = i + 1
                  /\ UNCHANGED <<jsonCandidate, scanPc>>
    /\ UNCHANGED <<text, firstBrace, parsed, tokVars, handlerVars>>

\* line 69: the loop ran off the end
ScanEndTruncated ==
    /\ scanPc = "loop"
    /\ i >= Len(text)
    /\ jsonCandidate' = JStr(slice(text, firstBrace, Len(text)))
    /\ scanPc' = "extracted"
    /\ UNCHANGED <<text, firstBrace, i, depth, inString, escaped, parsed, tokVars,
                   handlerVars>>
ScanEnd ==
    /\ scanPc = "loop"
    /\ i >= Len(text)
    /\ jsonCandidate' = JNull
    /\ scanPc' = "extracted"
    /\ UNCHANGED <<text, firstBrace, i, depth, inString, escaped, parsed, tokVars,
                   handlerVars>>

\* safeParseJsonCandidate on the extractor's result (line 152)
ParseCandidate ==
    /\ scanPc = "extracted"
    /\ parsed' = safeParseJsonCandidate(jsonCandidate)
    /\ scanPc' = "parsed"
    /\ UNCHANGED <<text, firstBrace, i, depth, inString, escaped, jsonCandidate, tokVars,
                   handlerVars>>

InitExtract ==
    /\ scanPc = "start" /\ text \in ExtractTexts /\ firstBrace = -1 /\ i = 0
    /\ depth = 0 /\ inString = FALSE /\ escaped = FALSE
    /\ jsonCandidate = JUndefined /\ parsed = JUndefined
    /\ TokIdle
    /\ HandlerIdle /\ env = [GEMINI_API_KEY |-> TRUE, SERPAPI_API_KEY |-> TRUE]
NextExtract == ExtractStart \/ ScanChar \/ ScanEnd \/ ParseCandidate
SpecExtract == InitExtract /\ [][NextExtract]_vars

(***************************************************************************)
(* The code-token extractor                                                 *)
(***************************************************************************)
Tokenize ==
    /\ tokPc = "start"
    /\ tokens' = extractIataCodesFromText(tokText)
    /\ tokPc' = "done"
    /\ UNCHANGED <<tokText, scanVars, handlerVars>>

InitTokens ==
    /\ ScanIdle /\ tokPc = "start" /\ tokText \in TokenTexts /\ tokens = <<>>
    /\ HandlerIdle /\ env = [GEMINI_API_KEY |-> TRUE, SERPAPI_API_KEY |-> TRUE]
NextTokens == Tokenize
SpecTokens == InitTokens /\ [][NextTokens]_vars

(***************************************************************************)
(* The request handler (lines 27-389), one step per await                   *)
(***************************************************************************)
\* what the handler's steps leave alone: the two extractors run on their own,
\* and the page is another program
textVars == <<scanVars, tokVars, pageVars>>

\* line 28
IsPreflightNever(req) == FALSE
IsPreflight(req) == req.method = "OPTIONS"

\* lines 38-39
GeminiKeyAssumed(e) == FALSE
GeminiKeyMissing(e) == ~e.GEMINI_API_KEY

\* line 294: Promise.all resolves when every search has settled
SearchesNeverJoined(searches) == FALSE
AnySearchSettled(searches) == \E k \in DOMAIN searches : searches[k].st = "done"
AllSearchesSettled(searches) == \A k \in DOMAIN searches : searches[k].st = "done"

RespondErrorPartial(msg) ==
    /\ response' = [sent |-> TRUE, status |-> 200, allowOrigin |-> "*",
                    body |-> [airportCodes |-> [source |-> JNull, destination |-> JNull],
                              selectedAirportCode |-> selectedAirportCode,
                              flightData |-> JNull,
                              itinerary |-> <<>>]]
    /\ pc' = "responded"
\* lines 378-388
RespondError(msg) ==
    /\ response' = [sent |-> TRUE, status |-> 500, allowOrigin |-> "*",
                    body |-> [error |-> msg]]
    /\ pc' = "responded"

\* Lines 184-262 and 334: from the lookup's outcome to the next await.  The
\* lists are resolved; then either one search per destination is issued
\* (includeFlights, the SerpAPI key, a start date toISOString accepts, and a
\* destination to search), or the itinerary request is.
ContinueAfterLookup(lookup, err) ==
    \E lists \in {ResolveAirports(request.source, request.destination, lookup)} :
    LET searching == /\ FlightsWanted(request, env)
                     /\ DateFormats(request)
                     /\ SearchesIssued(lists.dst) > 0
    IN /\ airportLookup' = lookup
       /\ lookupError' = err
       /\ geminiProvided' = GeminiProvided(lookup)
       /\ sourceAirports' = lists.src
       /\ destinationAirports' = lists.dst
       /\ originAirportForSearch' =
              IF Len(lists.src) > 0 THEN lists.src[1] ELSE request.source
       /\ flightData' = <<>>
       /\ selectedAirportCode' = JNull
       /\ IF searching
          THEN /\ search' = [k \in 1..SearchesIssued(lists.dst) |->
                                [st |-> "fetch", failed |-> FALSE, result |-> <<>>]]
               /\ flightRequests' = flightRequests + SearchesIssued(lists.dst)
               /\ pc' = "flights"
               /\ UNCHANGED itineraryRequests
          ELSE /\ search' = <<>>
               /\ itineraryRequests' = itineraryRequests + 1
               /\ pc' = "itineraryFetch"
               /\ UNCHANGED flightRequests
       /\ countryAirports' = TableAfterResolution(countryAirports, GeminiProvided(lookup),
                                                   request.source, request.destination)
       /\ UNCHANGED <<env, request, response, lookupRequests, textVars, served, previous>>

\* lines 177-182: the lookup threw
LookupUncaught(err) ==
    /\ RespondError(err)
    /\ lookupError' = err
    /\ UNCHANGED <<env, request, rawText, airportLookup, geminiProvided,
                   sourceAirports, destinationAirports, originAirportForSearch,
                   flightVars, counterVars, textVars, runVars>>
\* the lookup threw before line 147
LookupCaught(err) == ContinueAfterLookup(JNull, err) /\ UNCHANGED rawText

\* lines 27-41 and 119: the request arrives; OPTIONS is answered at once, an
\* unreadable body or a missing GEMINI_API_KEY ends in the error envelope,
\* otherwise the airport lookup request is issued
Receive(requests) ==
    /\ pc = "idle"
    /\ \E req \in requests :
        /\ request' = req
        /\ IF IsPreflight(req)
           THEN /\ response' = [sent |-> TRUE, status |-> 200, allowOrigin |-> "*",
                                body |-> JNull]
                /\ pc' = "responded"
                /\ UNCHANGED lookupRequests
           ELSE IF ~req.bodyOk
           THEN RespondError("Unexpected end of JSON input") /\ UNCHANGED lookupRequests
           ELSE IF GeminiKeyMissing(env)
           THEN RespondError("GEMINI_API_KEY is not configured") /\ UNCHANGED lookupRequests
           ELSE /\ pc' = "lookupFetch"
                /\ lookupRequests' = lookupRequests + 1
                /\ UNCHANGED response
    /\ UNCHANGED <<env, resolveVars, flightVars, flightRequests, itineraryRequests, textVars, runVars>>
ReceiveRequest == Receive(Requests)

\* line 119 settles: the fetch rejects, or resolves with a status
LookupFetchSettles ==
    /\ pc = "lookupFetch"
    /\ \/ LookupCaught("fetch failed")
       \/ /\ pc' \in {"lookupErrorBody", "lookupBody"}
          /\ UNCHANGED <<env, request, resolveVars, flightVars, response, counterVars, textVars, runVars>>

\* lines 140-142: resp.text() settles either way and the status error is thrown
LookupErrorBodySettles ==
    /\ pc = "lookupErrorBody"
    /\ \/ LookupCaught("Gemini airport lookup error: 500")
       \/ LookupCaught("body stream error")

\* lines 145-172: resp.json() rejects, or resolves with the payload
LookupBodySettles ==
    /\ pc = "lookupBody"
    /\ \/ LookupCaught("Unexpected token in JSON")
       \/ \E payload \in LookupPayloads :
            \E r \in {LookupResults[payload]} :
                /\ rawText' = RawTextOf(payload)
                /\ IF r.kind = "throw" THEN ContinueAfterLookup(JNull, r.msg)
                   ELSE ContinueAfterLookup(r.v, "none")

\* line 262 settles for destination k: the fetch rejects (line 288), resolves
\* with a non-success status (line 286), or resolves ok
FlightFetchSettles(k) ==
    /\ pc = "flights"
    /\ search[k].st = "fetch"
    /\ \/ search' = [search EXCEPT ![k] = [st |-> "done", failed |-> TRUE, result |-> <<>>]]
       \/ search' = [search EXCEPT ![k].st = "body"]
    /\ UNCHANGED <<pc, env, request, resolveVars, flightData, selectedAirportCode,
                   response, counterVars, textVars, runVars>>

\* line 265 settles for destination k: response.json() rejects, or resolves
\* with the data, whose offers are mapped (lines 267-284, 288-291)
FlightBodySettles(k) ==
    /\ pc = "flights"
    /\ search[k].st = "body"
    /\ \/ search' = [search EXCEPT ![k] = [st |-> "done", failed |-> TRUE, result |-> <<>>]]
       \/ \E data \in FlightPayloads :
            LET r == MapOffers(data, destinationAirports[k])
            IN search' = [search EXCEPT ![k] =
                            IF r.kind = "throw"
                            THEN [st |-> "done", failed |-> TRUE, result |-> <<>>]
                            ELSE [st |-> "done", failed |-> FALSE, result |-> r.v]]
    /\ UNCHANGED <<pc, env, request, resolveVars, flightData, selectedAirportCode,
                   response, counterVars, textVars, runVars>>

\* lines 294-301 and 334: every search has settled; the results are joined
\* and sorted, the airport is selected, the itinerary request is issued
FlightsJoin ==
    /\ pc = "flights"
    /\ AllSearchesSettled(search)
    /\ flightData' = JoinResults([k \in DOMAIN search |-> search[k].result],
                                 [k \in DOMAIN search |-> search[k].failed])
    /\ selectedAirportCode' =
           IF Len(flightData') > 0 THEN SelectAirport(flightData', destinationAirports)
           ELSE selectedAirportCode
    /\ itineraryRequests' = itineraryRequests + 1
    /\ pc' = "itineraryFetch"
    /\ UNCHANGED <<env, request, resolveVars, search, response, lookupRequests,
                   flightRequests, textVars, runVars>>

\* line 335 settles: the fetch rejects, or resolves with a status
ItineraryFetchSettles ==
    /\ pc = "itineraryFetch"
    /\ \/ RespondError("fetch failed")
       \/ pc' \in {"itineraryErrorBody", "itineraryBody"} /\ UNCHANGED response
    /\ UNCHANGED <<env, request, resolveVars, flightVars, counterVars, textVars, runVars>>

\* lines 353-357
ItineraryErrorBodySettles ==
    /\ pc = "itineraryErrorBody"
    /\ \/ RespondError("AI Gateway error: 500")
       \/ RespondError("body stream error")
    /\ UNCHANGED <<env, request, resolveVars, flightVars, counterVars, textVars, runVars>>

ListOrNull(xs) == IF Len(xs) > 0 THEN JArr(xs) ELSE JNull

\* lines 359-377
ItineraryBodySettles ==
    /\ pc = "itineraryBody"
    /\ \/ RespondError("Unexpected token in JSON")
       \/ \E itineraryText \in ItineraryPayloads :
            /\ response' =
                 [sent |-> TRUE, status |-> 200, allowOrigin |-> "*",
                  body |-> [airportCodes |-> [source |-> ListOrNull(sourceAirports),
                                              destination |-> ListOrNull(destinationAirports)],
                            selectedAirportCode |-> selectedAirportCode,
                            flightData |-> ListOrNull(flightData),
                            itinerary |-> IF itineraryText.t = "undefined" THEN <<>>
                                          ELSE itineraryText.s]]
            /\ pc' = "responded"
    /\ UNCHANGED <<env, request, resolveVars, flightVars, counterVars, textVars, runVars>>

Init ==
    /\ ScanIdle /\ TokIdle /\ HandlerIdle
    /\ env \in [GEMINI_API_KEY : BOOLEAN, SERPAPI_API_KEY : BOOLEAN]
Next ==
    \/ ReceiveRequest
    \/ LookupFetchSettles
    \/ LookupErrorBodySettles
    \/ LookupBodySettles
    \/ \E k \in DOMAIN search : FlightFetchSettles(k)
    \/ \E k \in DOMAIN search : FlightBodySettles(k)
    \/ FlightsJoin
    \/ ItineraryFetchSettles
    \/ ItineraryErrorBodySettles
    \/ ItineraryBodySettles
Spec == Init /\ [][Next]_vars

(***************************************************************************)
(* One invocation after another (line 27)                                  *)
(***************************************************************************)
MaxRuns == 2

\* The process serves the next request.  The handler's variables are locals
\* of the invocation (lines 33, 176, 192-193, 242-243), so the new invocation
\* starts with fresh ones; COUNTRY_AIRPORTS and the environment are the
\* process's.  The model turns to the new invocation once the current one
\* has resolved its lists.
NextInvocation ==
    /\ pc = "flights" \/ itineraryRequests > 0
    /\ served + 1 < MaxRuns
    /\ served' = served + 1
    /\ previous' = [source |-> request.source, destination |-> request.destination,
                    lookup |-> airportLookup, failed |-> lookupError # "none",
                    src |-> sourceAirports, dst |-> destinationAirports]
    /\ pc' = "idle" /\ request' = NoRequest
    /\ rawText' = JUndefined
    /\ lookupError' = "none" /\ airportLookup' = JNull
    /\ geminiProvided' = [src |-> <<>>, dst |-> <<>>]
    /\ sourceAirports' = <<>> /\ destinationAirports' = <<>>
    /\ originAirportForSearch' = <<>>
    /\ search' = <<>> /\ flightData' = <<>> /\ selectedAirportCode' = JNull
    /\ response' = NoResponse
    /\ lookupRequests' = 0 /\ flightRequests' = 0 /\ itineraryRequests' = 0
    /\ UNCHANGED <<env, countryAirports, textVars>>

InitRuns ==
    /\ ScanIdle /\ TokIdle /\ HandlerIdle
    /\ env = [GEMINI_API_KEY |-> TRUE, SERPAPI_API_KEY |-> TRUE]
\* The invocations are followed up to the resolved lists, which the flight
\* block (lines 242-306) reads and never writes: the requests are those
\* without flights.
RunRequests == {req \in Requests : ~req.includeFlights}
ReceiveRunRequest == Receive(RunRequests)
NextRuns ==
    \/ ReceiveRunRequest
    \/ LookupFetchSettles
    \/ LookupErrorBodySettles
    \/ LookupBodySettles
    \/ NextInvocation
SpecRuns == InitRuns /\ [][NextRuns]_vars

(***************************************************************************)
(* Properties of the JSON-candidate extractor                               *)
(***************************************************************************)
Extracted == scanPc \in {"extracted", "parsed"}

\* sub is the source text of one JSON object
IsJsonObjectText(sub) ==
    /\ Len(sub) >= 2 /\ sub[1] = "{" /\ sub[Len(sub)] = "}"
    /\ JSONParse(sub).ok

\* the places <<p, q>> where txt holds a JSON object, from p to q
ObjectsIn(txt) ==
    {pq \in (1..Len(txt)) \X (1..Len(txt)) :
        pq[1] < pq[2] /\ IsJsonObjectText(SubSeq(txt, pq[1], pq[2]))}

\* a string of the value (a key or a string value) holds a brace
RECURSIVE HasBraceInString(_)
HasBraceInString(v) ==
    CASE v.t = "str" -> \E k \in DOMAIN v.s : v.s[k] \in {"{", "}"}
      [] v.t = "arr" -> \E k \in DOMAIN v.a : HasBraceInString(v.a[k])
      [] v.t = "obj" -> \E k \in DOMAIN v.o :
                            \/ HasBraceInString(JStr(v.o[k].k))
                            \/ HasBraceInString(v.o[k].v)
      [] OTHER -> FALSE

\* The scanner's bookkeeping stated without the loop: a quote is escaped
\* when an odd run of backslashes (not reaching back past from) precedes it,
\* a character is read in string mode when an odd number of unescaped quotes
\* lie between from and it, and the depth counts the braces read outside
\* string mode.
RECURSIVE BackslashRun(_, _, _)
BackslashRun(txt, from, k) ==
    IF k >= from /\ txt[k] = "\\" THEN 1 + BackslashRun(txt, from, k - 1) ELSE 0
OpensOrCloses(txt, from, k) ==
    txt[k] = "\"" /\ BackslashRun(txt, from, k - 1) % 2 = 0
ReadInString(txt, from, k) ==
    Cardinality({j \in from..k : OpensOrCloses(txt, from, j)}) % 2 = 1
DepthAfter(txt, from, k) ==
    Cardinality({j \in from..k : txt[j] = "{" /\ ~ReadInString(txt, from, j)})
      - Cardinality({j \in from..k : txt[j] = "}" /\ ~ReadInString(txt, from, j)})
NeverBalanced(txt) ==
    LET from == indexOfBrace(txt) + 1
    IN from = 0 \/ \A k \in from..Len(txt) : DepthAfter(txt, from, k) # 0

\* C1 as stated: whatever the prefix and the suffix are, the extractor returns
\* the source text of the JSON object between them.
C1_AnyPrefix ==
    Extracted =>
        \A pq \in ObjectsIn(text) : jsonCandidate = JStr(SubSeq(text, pq[1], pq[2]))

\* C1 amended: when the prefix holds no "{", the extractor returns exactly the
\* source text of the JSON object, whatever else prefix and suffix hold.
C1_PrefixWithoutBrace ==
    Extracted =>
        \A pq \in ObjectsIn(text) :
            (\A k \in 1..(pq[1] - 1) : text[k] # "{")
                => jsonCandidate = JStr(SubSeq(text, pq[1], pq[2]))

C1_Witness ==
    /\ Extracted
    /\ text = Chars("here is it: {\"a\":1} thanks")
    /\ jsonCandidate = JStr(Chars("{\"a\":1}"))

\* C2: braces inside a quoted string do not end the scan early: a step that
\* reads a character in string mode leaves the depth alone, an escaped quote
\* read in string mode leaves string mode on, and for an object with a brace
\* inside one of its strings the candidate is the whole object.
C2_WholeObject ==
    Extracted =>
        \A q \in 1..Len(text) :
            LET sub == SubSeq(text, firstBrace + 1, q)
            IN (firstBrace >= 0 /\ IsJsonObjectText(sub) /\ HasBraceInString(JSONParse(sub).v))
                   => jsonCandidate = JStr(sub)
C2_StringMode ==
    (scanPc = "loop" /\ i < Len(text)) =>
        /\ (inString' => depth' = depth)
        /\ (inString /\ escaped /\ text[i + 1] = "\"" => inString')
C2_BracesInStrings == []C2_WholeObject /\ [][C2_StringMode]_vars

C2_Witness ==
    /\ Extracted
    /\ text = Chars("x{\"k\":\"\\\"}\"}}")
    /\ jsonCandidate = JStr(Chars("{\"k\":\"\\\"}\"}"))

\* C3: no "{", or a depth that never returns to zero (a cut-off object, an
\* unterminated string), gives no candidate; a candidate is never a cut-off
\* piece; and a missing or unparsable candidate parses to null, nothing thrown.
C3_NoCandidateIsNull ==
    /\ Extracted =>
          /\ NeverBalanced(text) <=> jsonCandidate = JNull
          /\ (\E o \in JsonObjects : text \in ProperPrefixes(o)) => jsonCandidate = JNull
          /\ jsonCandidate # JNull =>
                DepthAfter(text, firstBrace + 1, firstBrace + Len(jsonCandidate.s)) = 0
    /\ scanPc = "parsed" =>
          /\ parsed.kind = "return"
          /\ (jsonCandidate = JNull \/ ~JSONParse(jsonCandidate.s).ok) => parsed = Return(JNull)

C3_Witness ==
    /\ scanPc = "parsed"
    /\ text = Chars("{\"k\":\"}")
    /\ jsonCandidate = JNull
    /\ parsed = Return(JNull)

(***************************************************************************)
(* Properties of the code-token extractor                                   *)
(***************************************************************************)
\* C4 as stated: the example text yields NYC, CDG, LAX.
C4_OnlyTheCodes ==
    (tokPc = "done" /\ tokText = JStr(IataExample)) =>
        tokens = <<Chars("NYC"), Chars("CDG"), Chars("LAX")>>

\* C4 amended: the example text yields every three-letter word, uppercased, in
\* order of first occurrence: FLY, NYC, THE, CDG, HUB, LAX.
C4_EveryThreeLetterWord ==
    (tokPc = "done" /\ tokText = JStr(IataExample)) =>
        tokens = <<Chars("FLY"), Chars("NYC"), Chars("THE"),
                   Chars("CDG"), Chars("HUB"), Chars("LAX")>>

C4_Witness ==
    /\ tokPc = "done"
    /\ tokText = JStr(IataExample)
    /\ Len(tokens) = 6

(***************************************************************************)
(* Properties of the airport resolution                                     *)
(***************************************************************************)
\* lines 192-236 have run: the lists are final
Resolved == pc = "flights" \/ itineraryRequests > 0

UpstreamFailed == lookupError # "none"

EmptyLists == [src |-> <<>>, dst |-> <<>>]

\* what the claims say of one side that the lookup left empty
InputIsCode(input) == IsThreeLetters(trim(input))
InputIsCountry(input) == toLowerCase(trim(input)) \in DOMAIN COUNTRY_AIRPORTS
SideFollowsInput(provided, input, final) ==
    provided = <<>> =>
        IF InputIsCode(input) THEN final = <<toUpperCase(trim(input))>>
        ELSE InputIsCountry(input) => final = COUNTRY_AIRPORTS[toLowerCase(trim(input))]
\* the lookup and the side's own input both give nothing
SideUnresolved(provided, input) ==
    provided = <<>> /\ ~InputIsCode(input) /\ ~InputIsCountry(input)

\* C5: a side the lookup left empty becomes its input uppercased when the
\* trimmed input is three letters, else the table's list for the trimmed,
\* lowercased input when that is a key; Germany to France with the upstream
\* failing gives the two table lists.
C5_InputFallback ==
    Resolved =>
        /\ SideFollowsInput(geminiProvided.src, request.source, sourceAirports)
        /\ SideFollowsInput(geminiProvided.dst, request.destination, destinationAirports)
        /\ (UpstreamFailed /\ request.source = Chars("Germany")
                /\ request.destination = Chars("France")) =>
              /\ sourceAirports = <<Chars("FRA"), Chars("MUC"), Chars("BER"),
                                    Chars("DUS"), Chars("HAM")>>
              /\ destinationAirports = <<Chars("CDG"), Chars("ORY"), Chars("NCE"),
                                         Chars("LYS"), Chars("MRS")>>

C5_Witness ==
    /\ Resolved /\ UpstreamFailed
    /\ request.source = Chars("Germany") /\ request.destination = Chars("France")
    /\ Len(sourceAirports) = 5 /\ destinationAirports[1] = Chars("CDG")

\* C6: when exactly one side is resolved by the lookup or its own input, the
\* other side is the one-element list of that side's first code; the lists
\* are both empty or both non-empty, and so are the response's airportCodes;
\* XYZ to "" with the upstream failing gives [XYZ] on both sides.
C6_BothOrNeither ==
    Resolved =>
        /\ (sourceAirports = <<>>) <=> (destinationAirports = <<>>)
        /\ (/\ SideUnresolved(geminiProvided.src, request.source)
            /\ ~SideUnresolved(geminiProvided.dst, request.destination))
              => sourceAirports = <<destinationAirports[1]>>
        /\ (/\ SideUnresolved(geminiProvided.dst, request.destination)
            /\ ~SideUnresolved(geminiProvided.src, request.source))
              => destinationAirports = <<sourceAirports[1]>>
        /\ (response.sent /\ response.status = 200) =>
              ((response.body.airportCodes.source = JNull)
                  <=> (response.body.airportCodes.destination = JNull))
        /\ (UpstreamFailed /\ request.source = Chars("XYZ") /\ request.destination = <<>>) =>
              /\ sourceAirports = <<Chars("XYZ")>>
              /\ destinationAirports = <<Chars("XYZ")>>

C6_Witness ==
    /\ Resolved /\ UpstreamFailed
    /\ request.source = Chars("XYZ") /\ request.destination = <<>>
    /\ destinationAirports = <<Chars("XYZ")>>
    /\ response.sent /\ response.status = 200

\* C7: after resolution both lists are non-empty unless both inputs are empty.
C7_NonEmptyUnlessInputsEmpty ==
    Resolved =>
        \/ request.source = <<>> /\ request.destination = <<>>
        \/ sourceAirports # <<>> /\ destinationAirports # <<>>

\* C8: every resolved code is three uppercase letters.
C8_CodesAreThreeUppercaseLetters ==
    Resolved =>
        /\ \A k \in DOMAIN sourceAirports : IsUpperCode(sourceAirports[k])
        /\ \A k \in DOMAIN destinationAirports : IsUpperCode(destinationAirports[k])

\* C9: a failed airport lookup (the fetch rejects, a non-success status, an
\* unreadable body) sends no response; the handler goes on with no lookup
\* result to the flight searches or the itinerary request, and any response
\* of a request whose lookup was issued follows its itinerary request.
C9_FailureStep ==
    (pc \in {"lookupFetch", "lookupErrorBody", "lookupBody"} /\ lookupError' # "none") =>
        /\ ~response'.sent
        /\ pc' \in {"flights", "itineraryFetch"}
        /\ airportLookup' = JNull
        /\ geminiProvided' = EmptyLists
C9_ResponseFollowsItinerary ==
    (response.sent /\ lookupRequests > 0) =>
        /\ itineraryRequests > 0
        /\ response.status = 500 => response.body.error # "Gemini airport lookup error: 500"
C9_LookupFailureIsAbsorbed == []C9_ResponseFollowsItinerary /\ [][C9_FailureStep]_vars

C9_Witness ==
    /\ lookupError = "Gemini airport lookup error: 500"
    /\ response.sent /\ response.status = 200

(***************************************************************************)
(* Properties of the flight aggregation                                     *)
(***************************************************************************)
Joined == search # <<>> /\ pc # "flights"

Count(xs, x) == Cardinality({k \in DOMAIN xs : xs[k] = x})

AllResults == Flat([k \in DOMAIN search |-> search[k].result])

\* C10: a destination whose search failed contributes the empty list, a
\* settled search is not touched by the others settling, and after the join
\* flightData holds exactly the offers of all the searches' results.
C10_ResultsKept ==
    /\ \A k \in DOMAIN search : search[k].failed => search[k].result = <<>>
    /\ Joined =>
          \A x \in Range(AllResults) \cup Range(flightData) :
              Count(flightData, x) = Count(AllResults, x)
C10_SettledStaysSettled ==
    pc = "flights" =>
        \A k \in DOMAIN search : search[k].st = "done" => search'[k] = search[k]
C10_FaultIsolation == []C10_ResultsKept /\ [][C10_SettledStaysSettled]_vars

C10_Witness ==
    /\ Joined
    /\ \E k \in DOMAIN search : search[k].failed
    /\ \E k \in DOMAIN search : Len(search[k].result) = 3
    /\ Len(flightData) >= 3

\* the prices of a list of offers, -1 standing for an absent price
Prices(offers) == [k \in DOMAIN offers |-> IF offers[k].hasPrice THEN offers[k].price ELSE -1]

\* C11: after the join flightData holds every offer of every search, in
\* ascending order of price for every price from 0 up, the offers without a
\* price after all the priced ones.
C11_AscendingAbsentLast ==
    Joined =>
        /\ \A x \in Range(AllResults) : Count(flightData, x) = Count(AllResults, x)
        /\ \A a, b \in DOMAIN flightData :
              a < b =>
                /\ (flightData[a].hasPrice /\ flightData[b].hasPrice)
                      => flightData[a].price <= flightData[b].price
                /\ ~flightData[a].hasPrice => ~flightData[b].hasPrice

\* C12: once the searches are joined, selectedAirportCode is the destination
\* of the first offer of a non-empty flightData and null when flightData is
\* empty; two destinations, the first search failing and the second giving
\* the prices 500, 200, 800, give the order 200, 500, 800 and the second
\* destination.
C12_SelectedIsFirstOffersDestination ==
    itineraryRequests > 0 =>
        /\ IF flightData # <<>>
           THEN selectedAirportCode = JStr(flightData[1].destination)
           ELSE selectedAirportCode = JNull
        /\ (/\ Len(search) = 2 /\ search[1].failed
            /\ Prices(search[2].result) = <<500, 200, 800>>) =>
              /\ Prices(flightData) = <<200, 500, 800>>
              /\ selectedAirportCode = JStr(destinationAirports[2])

\* C13: with no destination code, no flight search is issued, flightData is
\* empty and selectedAirportCode is null, also in the response.
C13_NoDestinationNoSearch ==
    (Resolved /\ destinationAirports = <<>>) =>
        /\ flightRequests = 0 /\ search = <<>>
        /\ flightData = <<>> /\ selectedAirportCode = JNull
        /\ (response.sent /\ response.status = 200) =>
              /\ response.body.flightData = JNull
              /\ response.body.selectedAirportCode = JNull

C13_Witness ==
    /\ response.sent /\ response.status = 200 /\ request.method = "POST"
    /\ destinationAirports = <<>>
    /\ request.includeFlights /\ env.SERPAPI_API_KEY /\ request.startDateValid
    /\ response.body.flightData = JNull

(***************************************************************************)
(* Properties of the responses                                              *)
(***************************************************************************)
LookupPcs == {"lookupFetch", "lookupErrorBody", "lookupBody"}
NoUpstreamRequest == lookupRequests = 0 /\ flightRequests = 0 /\ itineraryRequests = 0
IsErrorEnvelope(r) == r.sent /\ r.status = 500 /\ DOMAIN r.body = {"error"}

\* C14: when the itinerary request fails (the fetch rejects, a non-success
\* status), the response is the error envelope with status 500 and nothing
\* but the error field, whatever resolution and the searches produced.
C14_FailureStep ==
    (pc \in {"itineraryFetch", "itineraryErrorBody"} /\ pc' = "responded") =>
        /\ IsErrorEnvelope(response')
        /\ response'.body.error \in {"fetch failed", "AI Gateway error: 500",
                                     "body stream error"}
C14_ErrorEnvelope ==
    /\ (response.sent /\ response.status = 500) => DOMAIN response.body = {"error"}
    /\ (response.sent /\ itineraryRequests > 0 /\ response.status = 200) =>
          DOMAIN response.body = {"airportCodes", "selectedAirportCode",
                                  "flightData", "itinerary"}
C14_ItineraryFailureFailsRequest == []C14_ErrorEnvelope /\ [][C14_FailureStep]_vars

C14_Witness ==
    /\ IsErrorEnvelope(response)
    /\ response.body.error = "AI Gateway error: 500"
    /\ itineraryRequests = 1
    /\ sourceAirports # <<>> /\ flightData # <<>>

C17_FlightsSkipped ==
    (request.method = "POST" /\ request.bodyOk
        /\ (~request.includeFlights \/ ~env.SERPAPI_API_KEY)) =>
        /\ flightRequests = 0 /\ search = <<>> /\ pc # "flights"
        /\ (lookupRequests > 0 /\ pc \notin LookupPcs) => itineraryRequests = 1
        /\ (response.sent /\ response.status = 200) =>
              /\ response.body.flightData = JNull
              /\ response.body.selectedAirportCode = JNull

C17_Witness ==
    /\ response.sent /\ response.status = 200 /\ request.method = "POST"
    /\ request.includeFlights /\ request.startDateValid /\ ~env.SERPAPI_API_KEY
    /\ destinationAirports # <<>>
    /\ response.body.flightData = JNull

\* C18: an OPTIONS request is answered with status 200, an empty body and
\* the permissive headers, whether or not its body can be read and with no
\* upstream request; every response carries Access-Control-Allow-Origin: *.
C18_PreflightAndCors ==
    /\ request.method = "OPTIONS" =>
          /\ response = [sent |-> TRUE, status |-> 200, allowOrigin |-> "*", body |-> JNull]
          /\ pc = "responded"
          /\ NoUpstreamRequest
    /\ response.sent => response.allowOrigin = "*"

C18_Witness ==
    /\ request.method = "OPTIONS" /\ ~request.bodyOk
    /\ response.sent /\ response.status = 200 /\ response.allowOrigin = "*"

(***************************************************************************)
(* Properties of the order of the offers and of the requests               *)
(***************************************************************************)
SamePrice(a, b) ==
    \/ a.hasPrice /\ b.hasPrice /\ a.price = b.price
    \/ ~a.hasPrice /\ ~b.hasPrice
\* the offers of a list that have the price of x, in the list's order
PricedLike(offers, x) ==
    LET Like(o) == SamePrice(o, x) IN SelectSeq(offers, Like)

\* C19: the offers of search k are those of destination k, and offers of
\* one price (or all without a price) are in flightData in the order of the
\* destination list and, within one destination, in the provider's order,
\* in whatever order the searches settled.
C19_StableOrder ==
    /\ \A k \in DOMAIN search : \A n \in DOMAIN search[k].result :
          search[k].result[n].destination = destinationAirports[k]
    /\ Joined =>
          \A x \in Range(flightData) :
              PricedLike(flightData, x) = PricedLike(AllResults, x)

C19_Witness ==
    /\ Joined /\ Len(destinationAirports) >= 2
    /\ \E a, b \in DOMAIN flightData :
          /\ a < b /\ SamePrice(flightData[a], flightData[b])
          /\ flightData[a].destination = destinationAirports[1]
          /\ flightData[b].destination = destinationAirports[2]
          /\ destinationAirports[1] # destinationAirports[2]
    /\ \E a, b \in DOMAIN flightData :
          /\ a < b /\ flightData[a].price = 200 /\ flightData[b].price = 200
          /\ flightData[a].destination = flightData[b].destination
          /\ flightData[a].duration = 120 /\ flightData[b].duration = 75

\* C20: the itinerary request is issued after the lookup has finished and
\* when every search has settled; the searches are issued after the lookup,
\* one per code of the final destination list, and the lists do not change
\* afterwards.
C20_Order ==
    /\ pc \in LookupPcs => (flightRequests = 0 /\ itineraryRequests = 0)
    /\ flightRequests > 0 =>
          /\ pc \notin LookupPcs \cup {"idle"}
          /\ flightRequests = Len(destinationAirports)
    /\ itineraryRequests > 0 =>
          /\ pc \notin LookupPcs \cup {"idle", "flights"}
          /\ \A k \in DOMAIN search : search[k].st = "done"
C20_Step ==
    /\ itineraryRequests' # itineraryRequests =>
          \/ pc \in LookupPcs /\ flightRequests' = 0
          \/ pc = "flights" /\ \A k \in DOMAIN search : search[k].st = "done"
    /\ flightRequests' # flightRequests => pc \in LookupPcs
    /\ pc \notin LookupPcs \cup {"idle"} =>
          UNCHANGED <<sourceAirports, destinationAirports>>
C20_ItineraryAfterLookupAndSearches == []C20_Order /\ [][C20_Step]_vars

C20_Witness ==
    /\ itineraryRequests = 1
    /\ Len(search) >= 2
    /\ \E k \in DOMAIN search : search[k].failed
    /\ \E k \in DOMAIN search : search[k].result # <<>>

(***************************************************************************)
(* Properties of successive invocations                                     *)
(***************************************************************************)
\* the current invocation was given what the previous one was given: the
\* same inputs, and the same failure of the lookup or the same reply, which
\* parses to the same airportLookup
SameAsPrevious ==
    /\ served > 0
    /\ request.source = previous.source
    /\ request.destination = previous.destination
    /\ (lookupError # "none") = previous.failed
    /\ airportLookup = previous.lookup

C21_EachCallOnce ==
    /\ lookupRequests <= 1 /\ itineraryRequests <= 1
    /\ itineraryRequests > 0 =>
          flightRequests = IF request.includeFlights /\ env.SERPAPI_API_KEY
                           THEN Len(destinationAirports) ELSE 0

\* C21 with the start date taken into account: the searches are issued when
\* flights are requested, SERPAPI_API_KEY is present and toISOString accepts
\* the start date, one per destination code; a failed call is not issued
\* again.
C21_EachCallOnceGivenDate ==
    /\ lookupRequests <= 1 /\ itineraryRequests <= 1
    /\ itineraryRequests > 0 =>
          flightRequests = IF /\ request.includeFlights /\ env.SERPAPI_API_KEY
                              /\ request.startDateValid
                           THEN Len(destinationAirports) ELSE 0
    /\ flightRequests > 0 => flightRequests = Len(search)

C21_Witness ==
    /\ itineraryRequests = 1 /\ lookupRequests = 1 /\ flightRequests = 5
    /\ lookupError # "none"
    /\ \E k \in DOMAIN search : search[k].failed
    /\ response.sent


(***************************************************************************)
(* Properties of the token tier and of the coercion                         *)
(***************************************************************************)
\* the lookup read a reply whose text it could scan, and the lists have just
\* been resolved: the handler is at its next await
LookupRead ==
    /\ rawText.t = "str"
    /\ \/ pc = "itineraryFetch" /\ search = <<>>
       \/ pc = "flights" /\ \A k \in DOMAIN search : search[k].st = "fetch"

\* what lines 151-152 make of rawText, and the tokens of rawText
ParsedOfRawText == safeParseJsonCandidate(extractFirstJsonObject(rawText.s)).v
RawTokens == extractIataCodesFromText(rawText)
NothingProvided == geminiProvided = [src |-> <<>>, dst |-> <<>>]

\* tier 5 and the substitution on the request's own inputs
ListsFromInputs ==
    /\ NothingProvided
    /\ [src |-> sourceAirports, dst |-> destinationAirports] =
          SubstituteOtherSide([src |-> InputFallback(<<>>, request.source),
                               dst |-> InputFallback(<<>>, request.destination)])
ListsFromTokens ==
    /\ geminiProvided = [src |-> <<RawTokens[1]>>, dst |-> Tail(RawTokens)]
    /\ sourceAirports = <<RawTokens[1]>>
    /\ destinationAirports = Tail(RawTokens)

\* the parsed object gives a non-empty list for one of the two keys
StructuredNonEmpty ==
    \/ arrayifyCodes(GetProp(ParsedOfRawText, Chars("source_airports"))) # <<>>
    \/ arrayifyCodes(GetProp(ParsedOfRawText, Chars("destination_airports"))) # <<>>

\* C22 as stated: whenever the text gives no structured result with a
\* non-empty source_airports or destination_airports, a parsed object lacking
\* both keys included, the tokens of the raw text are used when there are two
\* or more, and tier 5 otherwise.
C22_TokensWheneverNothingStructured ==
    (LookupRead /\ ~StructuredNonEmpty) =>
        IF Len(RawTokens) >= 2 THEN ListsFromTokens ELSE ListsFromInputs

\* C22 for the texts the token tier is applied to: when the text gives no
\* parsed object (no candidate, or a candidate JSON.parse rejects), two or more
\* tokens give the first as the only source code and the rest as the
\* destination codes, and fewer give nothing, leaving tier 5; a parsed object
\* is returned as it is, and when it has neither key tier 5 follows whatever
\* tokens its text holds.
C22_TokensOnlyWithoutParsedObject ==
    LookupRead =>
        IF ~Truthy(ParsedOfRawText)
        THEN IF Len(RawTokens) >= 2 THEN ListsFromTokens
             ELSE airportLookup = JNull /\ ListsFromInputs
        ELSE /\ airportLookup = ParsedOfRawText
             /\ ~StructuredNonEmpty => ListsFromInputs

C22_Witness ==
    /\ LookupRead /\ ~Truthy(ParsedOfRawText)
    /\ Truthy(extractFirstJsonObject(rawText.s))
    /\ Len(RawTokens) >= 2
    /\ sourceAirports = <<RawTokens[1]>>
    /\ destinationAirports = Tail(RawTokens)


\* the coercion by the kind of the value; a bare string counts when it is
\* not empty
Coerce(value) ==
    CASE value.t = "arr" -> [k \in 1..Len(value.a) |-> toUpperCase(StringOf(value.a[k]))]
      [] value.t = "str" /\ value.s # <<>> -> <<toUpperCase(value.s)>>
      [] OTHER -> <<>>
\* the coercion with every bare string counted
CoerceAnyString(value) ==
    CASE value.t = "arr" -> [k \in 1..Len(value.a) |-> toUpperCase(StringOf(value.a[k]))]
      [] value.t = "str" -> <<toUpperCase(value.s)>>
      [] OTHER -> <<>>

SourceValue == GetProp(airportLookup, Chars("source_airports"))
DestinationValue == GetProp(airportLookup, Chars("destination_airports"))

\* a side with a non-empty coerced list keeps it
ProvidedSidesKept ==
    /\ geminiProvided.src # <<>> => sourceAirports = geminiProvided.src
    /\ geminiProvided.dst # <<>> => destinationAirports = geminiProvided.dst

\* C23 as stated: an array is coerced element-wise to uppercased strings, any
\* bare string to the one-element list of its uppercase, anything else to the
\* empty list; a side whose coerced list is not empty keeps it.
C23_CoercionAnyString ==
    (Resolved /\ airportLookup.t = "obj") =>
        /\ geminiProvided = [src |-> CoerceAnyString(SourceValue),
                             dst |-> CoerceAnyString(DestinationValue)]
        /\ ProvidedSidesKept

\* C23 with the empty string set apart: an array is coerced element-wise to
\* uppercased strings in order, a non-empty bare string to the one-element
\* list of its uppercase, and anything else, the empty string included, to
\* the empty list; a side whose coerced list is not empty keeps it as its
\* final list, so tier 5 and the substitution fill empty sides only.
C23_Coercion ==
    (Resolved /\ airportLookup.t = "obj") =>
        /\ geminiProvided = [src |-> Coerce(SourceValue), dst |-> Coerce(DestinationValue)]
        /\ ProvidedSidesKept

C23_Witness ==
    /\ Resolved /\ airportLookup.t = "obj"
    /\ SourceValue = JStr(<<>>) /\ DestinationValue.t = "str"
    /\ destinationAirports = <<Chars("CDG")>>
    /\ geminiProvided.src = <<>>
    /\ sourceAirports = COUNTRY_AIRPORTS[Chars("germany")]


\* the places of t where a word of exactly three letters starts
ThreeLetterWords(t) ==
    {p \in 1..(Len(t) - 2) :
        /\ \A k \in p..(p + 2) : IsAlpha(t[k])
        /\ p = 1 \/ ~IsWordChar(t[p - 1])
        /\ p + 2 = Len(t) \/ ~IsWordChar(t[p + 3])}
CodeAt(t, p) == toUpperCase(SubSeq(t, p, p + 2))
\* the first place of t where the code stands as a word
FirstPlace(t, code) ==
    CHOOSE p \in ThreeLetterWords(t) :
        /\ CodeAt(t, p) = code
        /\ \A q \in ThreeLetterWords(t) : CodeAt(t, q) = code => p <= q

\* C24: extractIataCodesFromText returns the three-letter words of the text,
\* uppercased, each once, in the order of their first occurrence; words of
\* another length give nothing, and a null or empty text gives the empty list.
C24_ThreeLetterWordsOnce ==
    tokPc = "done" =>
        IF tokText.t # "str" \/ tokText.s = <<>> THEN tokens = <<>>
        ELSE /\ {tokens[k] : k \in DOMAIN tokens} =
                    {CodeAt(tokText.s, p) : p \in ThreeLetterWords(tokText.s)}
             /\ \A j, k \in DOMAIN tokens :
                    j < k => /\ tokens[j] # tokens[k]
                             /\ FirstPlace(tokText.s, tokens[j])
                                    < FirstPlace(tokText.s, tokens[k])

C24_Witness ==
    /\ tokPc = "done"
    /\ tokText = JStr(Chars("nyc NYC abcd Nyc x cdg"))
    /\ tokens = <<Chars("NYC"), Chars("CDG")>>


LiveRequests ==
    {req \in Requests : req.method = "POST" /\ req.bodyOk =>
        /\ req.source \in {Chars("Germany"), <<>>}
        /\ req.destination \in {Chars("Atlantis"), Chars(" cdg ")}}
ReceiveLiveRequest == Receive(LiveRequests)
NextLive ==
    \/ ReceiveLiveRequest
    \/ LookupFetchSettles
    \/ LookupErrorBodySettles
    \/ LookupBodySettles
    \/ \E k \in DOMAIN search : FlightFetchSettles(k)
    \/ \E k \in DOMAIN search : FlightBodySettles(k)
    \/ FlightsJoin
    \/ ItineraryFetchSettles
    \/ ItineraryErrorBodySettles
    \/ ItineraryBodySettles
\* Promise.all has resolved and the handler can go on: the condition under
\* which FlightsJoin is enabled, as a step that only moves pc.  The join ends
\* this condition, so weak fairness of this step is weak fairness of
\* FlightsJoin.
JoinStep ==
    /\ pc = "flights" /\ AllSearchesSettled(search)
    /\ pc' = "itineraryFetch"
    /\ UNCHANGED <<env, request, resolveVars, flightVars, response, counterVars,
                   textVars, runVars>>
\* Every await of the handler settles: each fetch and each body read
\* completes or fails, and the handler goes on from there.
Settling ==
    /\ WF_vars(LookupFetchSettles)
    /\ WF_vars(LookupErrorBodySettles)
    /\ WF_vars(LookupBodySettles)
    /\ WF_vars(\E k \in DOMAIN search : FlightFetchSettles(k) \/ FlightBodySettles(k))
    /\ WF_vars(JoinStep)
    /\ WF_vars(ItineraryFetchSettles)
    /\ WF_vars(ItineraryErrorBodySettles)
    /\ WF_vars(ItineraryBodySettles)
SpecLive == Init /\ [][NextLive]_vars /\ Settling

IsSuccessResult(r) ==
    /\ r.sent /\ r.status = 200
    /\ r.body # JNull
    /\ DOMAIN r.body = {"airportCodes", "selectedAirportCode", "flightData", "itinerary"}
IsPreflightReply(r) == r.sent /\ r.status = 200 /\ r.body = JNull

OneResponseStep == response.sent => response' = response

\* C26 as stated: every request, of whatever method, is eventually answered,
\* once, by the success result or by the error envelope.
C26_EveryRequestAnswered ==
    /\ (request # NoRequest) ~> response.sent
    /\ [](response.sent => (IsSuccessResult(response) \/ IsErrorEnvelope(response)))
    /\ [][OneResponseStep]_vars

\* C26 with the pre-flight set apart: every request is eventually answered,
\* once; a request other than OPTIONS by the success result or by the error
\* envelope with status 500, an OPTIONS request by the empty reply.
C26_EveryPlanRequestAnswered ==
    /\ (request # NoRequest) ~> response.sent
    /\ [](response.sent =>
            IF request.method = "OPTIONS" THEN IsPreflightReply(response)
            ELSE IsSuccessResult(response) \/ IsErrorEnvelope(response))
    /\ [][OneResponseStep]_vars

C26_Witness ==
    /\ IsErrorEnvelope(response)
    /\ lookupError # "none"
    /\ \E k \in DOMAIN search : search[k].failed
    /\ response.body.error = "Unexpected token in JSON"


(***************************************************************************)
(* Properties of the selected airport                                       *)
(***************************************************************************)
\* C27: in every success response selectedAirportCode is null exactly when
\* flightData is null.
C27_SelectedIffFlights ==
    (response.sent /\ response.status = 200 /\ request.method = "POST") =>
        (response.body.selectedAirportCode = JNull <=> response.body.flightData = JNull)


(***************************************************************************)
(* The Index page (lines 397-442) in front of the handler                   *)
(***************************************************************************)
\* the forms the page submits: supabase.functions.invoke posts them as JSON
PageRequests == {req \in LiveRequests : req.method = "POST" /\ req.bodyOk}

\* result.name of the parsed response body, undefined when it has no such field
ResultField(result, name) ==
    IF name \in DOMAIN result THEN result[name] ELSE JUndefined
\* v || null
OrNull(v) == IF Truthy(v) THEN v ELSE JNull

\* lines 405-411: handleSubmit up to the invocation
HandleSubmit ==
    /\ pc = "idle" /\ ~isLoading /\ itinerary = <<>>
    /\ isLoading' = TRUE
    /\ \E data \in PageRequests : formData' = data
    /\ UNCHANGED <<itinerary, pageFlightData, selectedAirport, toastShown,
                   scanVars, tokVars, pc, env, request, resolveVars, flightVars,
                   response, counterVars, runVars>>

\* line 409: the request of the page reaches the handler
ReceivePageRequest == isLoading /\ Receive({formData})

\* lines 413-433: the invocation settles.  A response with a non-2xx status,
\* or none at all, is an error; a result with an itinerary field sets the
\* page's state, anything else is an error; an error shows the toast.
InvokeSettles ==
    /\ isLoading
    /\ \/ /\ response.sent /\ response.status = 200
          /\ itinerary' = response.body.itinerary
          /\ pageFlightData' = OrNull(ResultField(response.body, "flightData"))
          /\ selectedAirport' = OrNull(ResultField(response.body, "selectedAirport"))
          /\ UNCHANGED toastShown
       \/ /\ \/ response.sent /\ response.status # 200
             \/ pc = "idle"
          /\ toastShown' = TRUE
          /\ UNCHANGED <<itinerary, pageFlightData, selectedAirport>>
    /\ isLoading' = FALSE
    /\ UNCHANGED <<formData, scanVars, tokVars, pc, env, request, resolveVars,
                   flightVars, response, counterVars, runVars>>

\* lines 436-441, behind the button that is shown with the plan
HandleReset ==
    /\ itinerary # <<>>
    /\ itinerary' = <<>> /\ pageFlightData' = JNull
    /\ selectedAirport' = JNull /\ formData' = JNull
    /\ UNCHANGED <<isLoading, toastShown, scanVars, tokVars, pc, env, request,
                   resolveVars, flightVars, response, counterVars, runVars>>

NextPage ==
    \/ HandleSubmit
    \/ ReceivePageRequest
    \/ LookupFetchSettles
    \/ LookupErrorBodySettles
    \/ LookupBodySettles
    \/ \E k \in DOMAIN search : FlightFetchSettles(k)
    \/ \E k \in DOMAIN search : FlightBodySettles(k)
    \/ FlightsJoin
    \/ ItineraryFetchSettles
    \/ ItineraryErrorBodySettles
    \/ ItineraryBodySettles
    \/ InvokeSettles
    \/ HandleReset
SpecPage == Init /\ [][NextPage]_vars

\* C28: once handleSubmit has taken a success response with a non-null
\* selectedAirportCode, and until handleReset, the page's selectedAirport is
\* that code; after handleReset it is null.
C28_PageShowsSelectedAirport ==
    /\ (/\ ~isLoading /\ formData # JNull /\ itinerary # <<>>
        /\ response.sent /\ response.status = 200
        /\ response.body.selectedAirportCode # JNull) =>
            selectedAirport = response.body.selectedAirportCode
    /\ formData = JNull => selectedAirport = JNull

====
